---- MODULE Spec2Model ----
(***************************************************************************)
(* Model of ndvi_analysis.py: a linear script that queries a remote image  *)
(* collection, maps a band-math transform and a spatial mean over it,      *)
(* pulls the per-image records to the client, assembles a table sorted by  *)
(* date and renders it to a chart file.                                    *)
(*                                                                         *)
(* Time is counted in ticks, TicksPerDay ticks to a calendar day; a        *)
(* calendar date is its day number since 1970-01-01.  NDVI values are      *)
(* exact fractions <<numerator, denominator>> in lowest terms.  None is    *)
(* the empty tuple.                                                        *)
(***************************************************************************)
EXTENDS Integers, Sequences, FiniteSets, TLC

(* ---- bounds of the model ---- *)
MaxImages == 3          \* images in the remote dataset (assembly runs)
MaxQueryImages == 2     \* images in the remote dataset (query runs)
MaxPixels == 2          \* pixels of the region in one image (band-math runs)
TicksPerDay == 2        \* resolution of acquisition times

(* ---- constants of the script ---- *)
Date_2020_01_01 == 18262      \* start_date = '2020-01-01'
Date_2023_12_31 == 19722      \* end_date = '2023-12-31'
CloudCeiling == 10            \* ee.Filter.lt('CLOUDY_PIXEL_PERCENTAGE', 10)
AoiLon == -523448             \* -52.3448 degrees, in 1e-4 degree
AoiLat == -317668             \* -31.7668 degrees, in 1e-4 degree
AoiBuffer == 5000             \* buffer(5000), metres
SecondsPerDay == 86400

None == <<>>
Unbound == -1

(* ---- arithmetic on exact fractions ---- *)
Abs(x) == IF x < 0 THEN -x ELSE x

RECURSIVE GCD(_, _)
GCD(a, b) == IF b = 0 THEN a ELSE GCD(b, a % b)

\* the fraction n/d (d > 0) in lowest terms
Frac(n, d) == LET g == GCD(Abs(n), d) IN <<n \div g, d \div g>>

AddFrac(x, y) == Frac(x[1] * y[2] + y[1] * x[2], x[2] * y[2])

(* ---- server-side image algebra (per pixel, masks combined) ---- *)
\* a band is a sequence of pixels [value, mask], mask = 1 where the pixel is valid
MinMask(p, q) == IF p.mask < q.mask THEN p.mask ELSE q.mask

subtract(a, b) == [k \in 1..Len(a) |-> [value |-> a[k].value - b[k].value, mask |-> MinMask(a[k], b[k])]]

add(a, b) == [k \in 1..Len(a) |-> [value |-> a[k].value + b[k].value, mask |-> MinMask(a[k], b[k])]]

\* Image.divide: floating division, 0 where the divisor is 0
divide(a, b) ==
    [k \in 1..Len(a) |->
        [value |-> IF b[k].value = 0 THEN <<0, 1>>
                   ELSE IF b[k].value < 0 THEN Frac(-a[k].value, -b[k].value)
                   ELSE Frac(a[k].value, b[k].value),
         mask |-> MinMask(a[k], b[k])]]

select(image, band) == image.bands[band]

\* Image.addBands with overwrite = false: an existing band name is kept and
\* the new band gets a suffixed name
addBands(image, name, band) ==
    LET new == IF name \in DOMAIN image.bands THEN name \o "_1" ELSE name
    IN  [image EXCEPT !.bands = [b \in (DOMAIN image.bands) \cup {new} |->
                                    IF b = new THEN band ELSE image.bands[b]]]

copyProperties(dest, source) == [dest EXCEPT !.time_start = source.time_start]

\* the band math with the operands of the difference exchanged
calculate_ndvi_swapped(image) ==
    LET red == select(image, "B4")
        nir == select(image, "B8")
        ndvi == divide(subtract(red, nir), add(nir, red))
    IN  copyProperties(addBands(image, "NDVI", ndvi), image)

calculate_ndvi(image) ==
    LET red == select(image, "B4")
        nir == select(image, "B8")
        ndvi == divide(subtract(nir, red), add(nir, red))
    IN  copyProperties(addBands(image, "NDVI", ndvi), image)

(* ---- spatial mean over the region ---- *)
RECURSIVE SumValid(_, _)
SumValid(band, k) ==
    IF k = 0 THEN <<0, 1>>
    ELSE IF band[k].mask = 1 THEN AddFrac(SumValid(band, k - 1), band[k].value)
    ELSE SumValid(band, k - 1)

CountValid(band) == Cardinality({k \in 1..Len(band) : band[k].mask = 1})

\* Reducer.mean over the region: null when no pixel of the region is valid
ReducerMean(band) ==
    IF CountValid(band) = 0 THEN None
    ELSE LET s == SumValid(band, Len(band)) IN Frac(s[1], s[2] * CountValid(band))

reduce_region_mean(image) ==
    [properties |-> [NDVI |-> ReducerMean(select(image, "NDVI")), date |-> image.time_start]]

(* ---- collection filters ---- *)
\* a date string denotes midnight UTC of that calendar day
ParseDate(d) == d * TicksPerDay

\* filterDate(start, end): start inclusive, end exclusive, on system:time_start
filterDate(coll, start, end) ==
    SelectSeq(coll, LAMBDA im : ParseDate(start) <= im.time_start /\ im.time_start < ParseDate(end))

filterBounds(coll, geometry) == SelectSeq(coll, LAMBDA im : im.intersects)

filterCloud(coll) == SelectSeq(coll, LAMBDA im : im.cloudy < CloudCeiling)

(* ---- client-side table assembly ---- *)
\* pd.to_datetime(t, unit=...): the instant as a timestamp, counted in seconds
to_datetime(t) == t * (SecondsPerDay \div TicksPerDay)

DataFrame(ds, vs) == [k \in 1..Len(ds) |-> [Date |-> ds[k], NDVI |-> vs[k]]]

Perms(n) == {p \in [1..n -> 1..n] : \A a, b \in 1..n : p[a] = p[b] => a = b}

IsSortedByDate(d) == \A k \in 1..(Len(d) - 1) : d[k].Date <= d[k + 1].Date

\* a sort that leaves the rows as they are
sort_values_unsorted(d) == {d}

\* sort_values(by='Date') with the default kind='quicksort', followed by
\* reset_index(drop=True): ascending by Date, order among equal dates unspecified
sort_values(d) ==
    {r \in {[k \in 1..Len(d) |-> d[p[k]]] : p \in Perms(Len(d))} : IsSortedByDate(r)}

(* ---- program order ---- *)
\* the statements of the script, top to bottom
Program ==
    << "Initialize", "aoi", "period", "collection", "map_ndvi", "map_reduce",
       "getInfo", "lists", "for", "DataFrame", "sort_values", "figure", "plot",
       "labels", "savefig", "show", "print" >>

\* the statements that call the remote imagery service (ee.*)
RemoteSteps == {"Initialize", "aoi", "collection", "map_ndvi", "map_reduce", "getInfo"}

Position(step) == CHOOSE k \in 1..Len(Program) : Program[k] = step

\* a program order in which the confirmation is printed before the chart is saved
Successor_print_first(step) ==
    LET P == << "Initialize", "aoi", "period", "collection", "map_ndvi", "map_reduce",
                "getInfo", "lists", "for", "DataFrame", "sort_values", "figure", "plot",
                "labels", "print", "savefig", "show" >>
        k == CHOOSE j \in 1..Len(P) : P[j] = step
    IN  IF k = Len(P) THEN "done" ELSE P[k + 1]

\* the statement executed after step when step completes
Successor(step) ==
    IF Position(step) = Len(Program) THEN "done" ELSE Program[Position(step) + 1]

Message == "Analise de NDVI concluida e grafico salvo como 'ndvi_time_series.png'"

VARIABLES
    pc,                 \* the statement to execute next, or "done" / "raised"
    failed,             \* the statement that raised, "" if none
    log,                \* the statements completed or raised so far, in order
    session,            \* TRUE once ee.Initialize() has returned
    catalog,            \* the remote dataset COPERNICUS/S2_SR_HARMONIZED
    aoi, start_date, end_date,
    collection, ndvi_collection, feature_collection,
    ndvi_features,      \* the list returned by getInfo()
    idx,                \* position of the for loop in ndvi_features
    dates, ndvi_values, df,
    figure,             \* the current matplotlib figure
    png,                \* content of ndvi_time_series.png, None if not written
    shown,              \* TRUE once plt.show() has returned
    stdout

vars ==
    << pc, failed, log, session, catalog, aoi, start_date, end_date, collection,
       ndvi_collection, feature_collection, ndvi_features, idx, dates,
       ndvi_values, df, figure, png, shown, stdout >>

config == << aoi, start_date, end_date >>
remote == << session, collection, ndvi_collection, feature_collection, ndvi_features >>
table == << idx, dates, ndvi_values, df >>
output == << figure, png, shown, stdout >>

(* ---- the remote dataset ---- *)
Pixel(v) == [value |-> v, mask |-> 1]
MaskedPixel == [value |-> 0, mask |-> 0]
PixelVals == {0, 100, 300}
PixelSet == {Pixel(v) : v \in PixelVals} \cup {MaskedPixel}
CloudSet == {CloudCeiling - 1, CloudCeiling}
DateSet == {Date_2020_01_01, Date_2023_12_31}
\* acquisition times: the first and the last tick of each date
Times == {ParseDate(d) + o : d \in DateSet, o \in {0, TicksPerDay - 1}}
\* two acquisitions on the start date of the script and one on its end date
MainTimes == Times \ {ParseDate(Date_2023_12_31)}

Image(t, c, x, b4, b8) ==
    [time_start |-> t, cloudy |-> c, intersects |-> x,
     bands |-> [b \in {"B2", "B4", "B8"} |->
                    IF b = "B4" THEN b4
                    ELSE IF b = "B8" THEN b8
                    ELSE [k \in 1..Len(b4) |-> Pixel(50)]]]

SeqUpTo(S, n) == UNION {[1..k -> S] : k \in 0..n}

\* one-pixel rasters: mean NDVI 1/2, mean NDVI -1/2, no valid pixel
MainRasters ==
    { << <<Pixel(100)>>, <<Pixel(300)>> >>,
      << <<Pixel(300)>>, <<Pixel(100)>> >>,
      << <<MaskedPixel>>, <<MaskedPixel>> >> }

MainImages == {Image(t, CloudCeiling - 1, TRUE, r[1], r[2]) : t \in MainTimes, r \in MainRasters}

QueryImages ==
    {Image(t, c, x, <<Pixel(100)>>, <<Pixel(300)>>) : t \in Times, c \in CloudSet, x \in BOOLEAN}

BandImages ==
    UNION {{Image(ParseDate(Date_2020_01_01), CloudCeiling - 1, TRUE, b4, b8) :
                b4 \in [1..n -> PixelSet], b8 \in [1..n -> PixelSet]} : n \in 0..MaxPixels}

InitWith(cat) ==
    /\ catalog = cat
    /\ pc = "Initialize"
    /\ failed = ""
    /\ log = <<>>
    /\ session = FALSE
    /\ aoi = <<>>
    /\ start_date = Unbound
    /\ end_date = Unbound
    /\ collection = <<>>
    /\ ndvi_collection = <<>>
    /\ feature_collection = <<>>
    /\ ndvi_features = <<>>
    /\ idx = 1
    /\ dates = <<>>
    /\ ndvi_values = <<>>
    /\ df = <<>>
    /\ figure = [open |-> FALSE, lines |-> <<>>, labelled |-> FALSE]
    /\ png = None
    /\ shown = FALSE
    /\ stdout = <<>>

Init == \E cat \in SeqUpTo(MainImages, MaxImages) : InitWith(cat)

InitQuery == \E cat \in SeqUpTo(QueryImages, MaxQueryImages) : InitWith(cat)

InitBand == \E im \in BandImages : InitWith(<<im>>)

(* ---- statements ---- *)
\* step completes and control passes to the next statement
Complete(step) ==
    /\ pc = step
    /\ pc' = Successor(step)
    /\ log' = Append(log, step)
    /\ failed' = failed

\* an ee.* call raises and the error is swallowed: the run goes on
Raise_swallowed ==
    /\ pc \in RemoteSteps
    /\ pc' = Successor(pc)
    /\ failed' = pc
    /\ log' = Append(log, pc)
    /\ UNCHANGED << catalog, config, remote, table, output >>

\* an ee.* call raises; nothing catches it, the interpreter exits
Raise ==
    /\ pc \in RemoteSteps
    /\ pc' = "raised"
    /\ failed' = pc
    /\ log' = Append(log, pc)
    /\ UNCHANGED << catalog, config, remote, table, output >>

\* line 6: ee.Initialize()
Initialize ==
    /\ Complete("Initialize")
    /\ session' = TRUE
    /\ UNCHANGED << catalog, config, collection, ndvi_collection, feature_collection,
                    ndvi_features, table, output >>

\* line 12: aoi = ee.Geometry.Point(-52.3448, -31.7668).buffer(5000)
DefineAoi ==
    /\ Complete("aoi")
    /\ aoi' = << AoiLon, AoiLat, AoiBuffer >>
    /\ UNCHANGED << catalog, start_date, end_date, remote, table, output >>

\* lines 15-16: start_date = ..., end_date = ...
DefinePeriod(s, e) ==
    /\ Complete("period")
    /\ start_date' = s
    /\ end_date' = e
    /\ UNCHANGED << catalog, aoi, remote, table, output >>

\* lines 20-23: the filtered collection
Collection ==
    /\ Complete("collection")
    /\ collection' = filterCloud(filterBounds(filterDate(catalog, start_date, end_date), aoi))
    /\ UNCHANGED << catalog, config, session, ndvi_collection, feature_collection,
                    ndvi_features, table, output >>

\* line 34: ndvi_collection = collection.map(calculate_ndvi)
MapNdvi ==
    /\ Complete("map_ndvi")
    /\ ndvi_collection' = [k \in 1..Len(collection) |-> calculate_ndvi(collection[k])]
    /\ UNCHANGED << catalog, config, session, collection, feature_collection,
                    ndvi_features, table, output >>

\* line 46, first call: ndvi_collection.map(reduce_region_mean)
MapReduce ==
    /\ Complete("map_reduce")
    /\ feature_collection' =
           [k \in 1..Len(ndvi_collection) |-> reduce_region_mean(ndvi_collection[k])]
    /\ UNCHANGED << catalog, config, session, collection, ndvi_collection,
                    ndvi_features, table, output >>

\* line 46, second call: .getInfo() blocks until the whole batch is evaluated
GetInfo ==
    /\ Complete("getInfo")
    /\ ndvi_features' = feature_collection
    /\ UNCHANGED << catalog, config, session, collection, ndvi_collection,
                    feature_collection, table, output >>

\* lines 49-50: dates = [], ndvi_values = []
Lists ==
    /\ Complete("lists")
    /\ dates' = <<>>
    /\ ndvi_values' = <<>>
    /\ idx' = 1
    /\ UNCHANGED << catalog, config, remote, df, output >>

\* an iteration that appends the record whether or not its value is missing
Appended_unfiltered(f) == << <<to_datetime(f.properties.date)>>, <<f.properties.NDVI>> >>

\* what one iteration of the loop appends for the record f (lines 53-56)
Appended(f) ==
    IF f.properties.NDVI # None
    THEN << <<to_datetime(f.properties.date)>>, <<f.properties.NDVI>> >>
    ELSE << <<>>, <<>> >>

\* lines 52-56: one iteration of the for loop
ForBody ==
    /\ pc = "for"
    /\ idx <= Len(ndvi_features)
    /\ dates' = dates \o Appended(ndvi_features[idx])[1]
    /\ ndvi_values' = ndvi_values \o Appended(ndvi_features[idx])[2]
    /\ idx' = idx + 1
    /\ UNCHANGED << pc, failed, log, catalog, config, remote, df, output >>

\* line 52: the iterator is exhausted
ForExit ==
    /\ idx > Len(ndvi_features)
    /\ Complete("for")
    /\ UNCHANGED << catalog, config, remote, table, output >>

\* line 58: df = pd.DataFrame({"Date": dates, "NDVI": ndvi_values})
MakeDataFrame ==
    /\ Complete("DataFrame")
    /\ df' = DataFrame(dates, ndvi_values)
    /\ UNCHANGED << catalog, config, remote, idx, dates, ndvi_values, output >>

\* line 59: df = df.sort_values(by='Date').reset_index(drop=True)
SortValues ==
    /\ Complete("sort_values")
    /\ df' \in sort_values(df)
    /\ UNCHANGED << catalog, config, remote, idx, dates, ndvi_values, output >>

\* line 62: plt.figure(figsize=(12, 6))
Figure ==
    /\ Complete("figure")
    /\ figure' = [open |-> TRUE, lines |-> <<>>, labelled |-> FALSE]
    /\ UNCHANGED << catalog, config, remote, table, png, shown, stdout >>

\* a plot that refuses an empty table
Plot_rejecting_empty ==
    /\ pc = "plot"
    /\ pc' = IF df = <<>> THEN "raised" ELSE Successor("plot")
    /\ failed' = IF df = <<>> THEN "plot" ELSE failed
    /\ log' = Append(log, "plot")
    /\ figure' = IF df = <<>> THEN figure
                 ELSE [figure EXCEPT !.lines =
                          Append(@, [k \in 1..Len(df) |-> << df[k].Date, df[k].NDVI >>])]
    /\ UNCHANGED << catalog, config, remote, table, png, shown, stdout >>

\* line 63: plt.plot(df['Date'], df['NDVI'], ...)
Plot ==
    /\ Complete("plot")
    /\ figure' = [figure EXCEPT !.lines =
                     Append(@, [k \in 1..Len(df) |-> << df[k].Date, df[k].NDVI >>])]
    /\ UNCHANGED << catalog, config, remote, table, png, shown, stdout >>

\* a labelling step that also re-indexes the table in reverse
Labels_reordering ==
    /\ Complete("labels")
    /\ figure' = [figure EXCEPT !.labelled = TRUE]
    /\ df' = [k \in 1..Len(df) |-> df[Len(df) + 1 - k]]
    /\ UNCHANGED << catalog, config, remote, idx, dates, ndvi_values, png, shown, stdout >>

\* lines 64-68: title, axis labels, grid, tight_layout
Labels ==
    /\ Complete("labels")
    /\ figure' = [figure EXCEPT !.labelled = TRUE]
    /\ UNCHANGED << catalog, config, remote, table, png, shown, stdout >>

\* line 69: plt.savefig('ndvi_time_series.png')
SaveFig ==
    /\ Complete("savefig")
    /\ png' = << figure >>
    /\ UNCHANGED << catalog, config, remote, table, figure, shown, stdout >>

\* line 70: plt.show()
Show ==
    /\ Complete("show")
    /\ shown' = TRUE
    /\ UNCHANGED << catalog, config, remote, table, figure, png, stdout >>

\* line 72: print(...)
PrintDone ==
    /\ Complete("print")
    /\ stdout' = Append(stdout, Message)
    /\ UNCHANGED << catalog, config, remote, table, figure, png, shown >>

Pipeline ==
    \/ Raise
    \/ Initialize
    \/ DefineAoi
    \/ Collection
    \/ MapNdvi
    \/ MapReduce
    \/ GetInfo
    \/ Lists
    \/ ForBody
    \/ ForExit
    \/ MakeDataFrame
    \/ SortValues
    \/ Figure
    \/ Plot
    \/ Labels
    \/ SaveFig
    \/ Show
    \/ PrintDone

\* the script as written: the period is the two literals of lines 15-16
Next == Pipeline \/ DefinePeriod(Date_2020_01_01, Date_2023_12_31)

\* the script over every period that can be written in lines 15-16
NextQuery == Pipeline \/ \E s, e \in DateSet : DefinePeriod(s, e)

Spec == Init /\ [][Next]_vars

SpecQuery == InitQuery /\ [][NextQuery]_vars

SpecBand == InitBand /\ [][Next]_vars

FairSpec == Init /\ [][Next]_vars /\ WF_vars(Next)

(* ---- vocabulary of the properties ---- *)
Range(q) == {q[k] : k \in 1..Len(q)}

Occurrences(q, x) == Cardinality({k \in 1..Len(q) : q[k] = x})

\* step has been executed and has returned
Completed(step) == step \in Range(log) /\ failed # step

IsPrefix(q, r) == Len(q) <= Len(r) /\ \A k \in 1..Len(q) : q[k] = r[k]

\* the statements after line 59
AfterSort == {"figure", "plot", "labels", "savefig", "show", "print", "done"}

\* the rows the records of ndvi_features with a value stand for, in input order
ExpectedRows ==
    LET present == SelectSeq(ndvi_features, LAMBDA f : f.properties.NDVI # None)
    IN  [k \in 1..Len(present) |->
            [Date |-> to_datetime(present[k].properties.date), NDVI |-> present[k].properties.NDVI]]

\* the day number of the calendar date an instant falls on
DayOf(t) == t \div TicksPerDay

AllMissing == \A k \in 1..Len(ndvi_features) : ndvi_features[k].properties.NDVI = None

(* C1: after line 59 the table is ordered by Date ascending: every row's    *)
(* Date is less than or equal to the Date of the row that follows it.       *)
C1_SortedAscending ==
    pc \in AfterSort => \A k \in 1..(Len(df) - 1) : df[k].Date <= df[k + 1].Date

\* a finished run whose rows were appended out of date order
C1_Witness ==
    /\ pc = "done"
    /\ Len(df) >= 2
    /\ \E k \in 1..(Len(dates) - 1) : dates[k] > dates[k + 1]

(* C2: the table holds no row with a missing value, and its rows are, as a  *)
(* multiset, exactly the records of ndvi_features whose value is present,   *)
(* each with its timestamp and value.                                       *)
C2_RowsAreThePresentRecords ==
    (Completed("DataFrame") /\ pc # "raised") =>
        /\ \A k \in 1..Len(df) : df[k].NDVI # None
        /\ Len(df) = Len(ExpectedRows)
        /\ \A r \in Range(df) \cup Range(ExpectedRows) :
               Occurrences(df, r) = Occurrences(ExpectedRows, r)

\* a finished run with a dropped record, and two equal rows kept
C2_Witness ==
    /\ pc = "done"
    /\ \E k \in 1..Len(ndvi_features) : ndvi_features[k].properties.NDVI = None
    /\ Len(df) = 2
    /\ df[1] = df[2]

(* C3: rows with equal Date keep, after the sort, the order in which they   *)
(* were appended: the sorted table is the stable sort of the unsorted one.  *)
C3_StableTieBreak ==
    pc \in AfterSort =>
        \E p \in Perms(Len(df)) :
            /\ \A k \in 1..Len(df) : df[k] = DataFrame(dates, ndvi_values)[p[k]]
            /\ \A a, b \in 1..Len(df) :
                   (a < b /\ df[a].Date = df[b].Date) => p[a] < p[b]

(* C4: when getInfo has returned no record, or only records with a missing  *)
(* value, the table has zero rows, no statement raises, and the run goes on *)
(* to write the chart file and print the confirmation.                      *)
DegenerateResult == Completed("getInfo") /\ pc # "raised" /\ AllMissing

C4_DegenerateIsNotAnError ==
    /\ [](Completed("getInfo") /\ AllMissing =>
            /\ failed = ""
            /\ pc # "raised"
            /\ Completed("DataFrame") => df = <<>>
            /\ pc = "done" => (png # None /\ stdout = << Message >>))
    /\ (DegenerateResult ~> (pc = "done" /\ png # None /\ stdout = << Message >>))

\* a finished run in which every record came back without a value
C4_Witness ==
    /\ pc = "done"
    /\ ndvi_features # <<>>
    /\ AllMissing
    /\ df = <<>>
    /\ png # None

C6_IntervalInclusive ==
    Completed("collection") =>
        \A im \in Range(catalog) :
            im \in Range(collection) <=>
                /\ start_date <= DayOf(im.time_start)
                /\ DayOf(im.time_start) <= end_date
                /\ im.intersects
                /\ im.cloudy < CloudCeiling

(* C7: calculate_ndvi adds one band NDVI = (NIR - Red)/(NIR + Red) at every *)
(* pixel where the quotient is defined, keeps every other band and the      *)
(* timestamp, and gives exactly 1/2 where Red = 100 and NIR = 300.          *)
C7_BandMath ==
    Completed("map_ndvi") =>
        /\ Len(ndvi_collection) = Len(collection)
        /\ \A k \in 1..Len(collection) :
             LET src == collection[k]
                 out == ndvi_collection[k]
             IN  /\ DOMAIN out.bands = (DOMAIN src.bands) \cup {"NDVI"}
                 /\ \A b \in DOMAIN src.bands : out.bands[b] = src.bands[b]
                 /\ out.time_start = src.time_start
                 /\ out.cloudy = src.cloudy
                 /\ out.intersects = src.intersects
                 /\ Len(out.bands["NDVI"]) = Len(src.bands["B4"])
                 /\ \A j \in 1..Len(src.bands["B4"]) :
                      LET red == src.bands["B4"][j].value
                          nir == src.bands["B8"][j].value
                          q == out.bands["NDVI"][j].value
                      IN  /\ q[2] > 0
                          /\ (nir + red # 0) => q[1] * (nir + red) = (nir - red) * q[2]
                          /\ (red = 100 /\ nir = 300) => q = << 1, 2 >>

\* the transform has been applied to an image with a pixel Red = 100, NIR = 300
\* next to a pixel of other values
C7_Witness ==
    /\ Completed("map_ndvi")
    /\ \E k \in 1..Len(collection) :
        /\ Len(collection[k].bands["B4"]) >= 2
        /\ \E j \in 1..Len(collection[k].bands["B4"]) :
             /\ collection[k].bands["B4"][j] = Pixel(100)
             /\ collection[k].bands["B8"][j] = Pixel(300)
        /\ \E j \in 1..Len(collection[k].bands["B4"]) :
             /\ collection[k].bands["B4"][j] = Pixel(300)
             /\ collection[k].bands["B8"][j] = Pixel(0)

(* C8: an error raised by a call to the remote service ends the run at that *)
(* statement: the statement is not executed again, no later statement runs,  *)
(* the chart file is not written and the confirmation is not printed.        *)
C8_RemoteErrorTerminates ==
    /\ [](failed # "" =>
            /\ pc = "raised"
            /\ failed \in RemoteSteps
            /\ log[Len(log)] = failed
            /\ Occurrences(log, failed) = 1
            /\ png = None
            /\ stdout = <<>>)
    /\ [][pc # "raised"]_vars

\* the materialization call has raised
C8_Witness == pc = "raised" /\ failed = "getInfo" /\ Len(log) = 7

(* C9: the table changes only when it is built (line 58) and when it is     *)
(* sorted (line 59); the rendering statements and the print leave its rows  *)
(* and their order as they are; the region and the period, once defined,    *)
(* are changed by no statement.                                             *)
C9_ReadOnlyAfterConstruction ==
    /\ [][df' # df => pc \in {"DataFrame", "sort_values"}]_vars
    /\ [][(pc \in AfterSort) => (df' = df)]_vars
    /\ [][aoi # <<>> => (aoi' = aoi)]_vars
    /\ [][start_date # Unbound => (start_date' = start_date /\ end_date' = end_date)]_vars

\* a finished run whose table has rows of different dates
C9_Witness == pc = "done" /\ Len(df) >= 2 /\ df[1] # df[Len(df)] /\ start_date # Unbound

(* C10: the statements run in the order of the script, each at most once:   *)
(* the session is initialized before the collection is queried, the one     *)
(* getInfo call has returned before a row is assembled, the table is sorted *)
(* before it is plotted, and the chart file is written before the           *)
(* confirmation is printed.                                                 *)
C10_FixedOrder ==
    /\ IsPrefix(log, Program)
    /\ Completed("collection") => session
    /\ (idx > 1 \/ dates # <<>>) => Completed("getInfo")
    /\ figure.lines # <<>> => Completed("sort_values")
    /\ stdout # <<>> => (png # None /\ Completed("savefig"))
    /\ Len(stdout) <= 1

\* a run that has printed the confirmation
C10_Witness == pc = "done" /\ stdout = << Message >> /\ Len(log) = Len(Program)

====
